---- MODULE Spec2Model ----
(***************************************************************************)
(* Model of the Store service (src/Store/main.py): the processed_agent_data*)
(* table behind the CRUDL routes, the process-wide WebSocket subscription  *)
(* registry, and the fan-out that the create and update routes run after   *)
(* their commit.                                                           *)
(*                                                                         *)
(* Granularity.  The async routes run on one event loop: code between two  *)
(* awaits that really suspend is one step.  The only suspension points of  *)
(* the routes are the websocket.send_json awaits of line 130, so one       *)
(* action runs a route from a suspension point to the next one.  One       *)
(* create/update request is in flight at a time (variable call); WebSocket *)
(* connects, closes and the sync routes interleave with it.  Every route   *)
(* runs its database work in one session and one commit; the model takes   *)
(* that transaction as one atomic step of the store.                       *)
(*                                                                         *)
(* The agent's FileDatasource (src/agent/src/file_datasource.py) is a      *)
(* separate program: its state is the variable source, and its behaviours  *)
(* are those of SourceSpec.                                                *)
(***************************************************************************)
EXTENDS Integers, Sequences, FiniteSets, TLC

\* ------------------------------------------------------------------ bounds
NumUsers == 2
MaxHandles == 1
MaxId == 2
MaxBatch == 2
MaxRows == 2

Users == 1..NumUsers
Handles == 1..MaxHandles

\* ------------------------------------------------------------- data shapes
\* Python None as a route's return value, and a found row as a return value.
None == <<>>
Some(r) == <<r>>

\* ProcessedAgentDataDbModel.id before the flush assigns it.
UnsetId == 0

\* A submitted ProcessedAgentData payload.  iso says whether the timestamp
\* text is an ISO-8601 datetime, i.e. whether pydantic accepts the item.
SampleItem(v, good) ==
    [road_state |-> IF v = 1 THEN "WORN" ELSE "SMOOTH",
     agent_data |->
        [user_id |-> v,
         accelerometer |-> [x |-> 10 + v, y |-> 20 + v, z |-> 30 + v],
         gps |-> [latitude |-> 50 + v, longitude |-> 40 - v],
         timestamp |-> [iso |-> good, t |-> 100 + v]]]

\* The submitted items: a valid record of the first user, one of the last
\* user, and a record whose timestamp does not parse.
ValidItems == {SampleItem(v, TRUE) : v \in {1, NumUsers}}
Items == ValidItems \cup {SampleItem(1, FALSE)}

\* Request-body validation of List[ProcessedAgentData] / ProcessedAgentData:
\* the route body runs only when every item validates.
ValidItem(item) == item.agent_data.timestamp.iso
ValidBody(data) == \A i \in 1..Len(data) : ValidItem(data[i])

Batches == UNION {[1..n -> Items] : n \in 0..MaxBatch}

\* convert_agent_data: nested payload -> flat ORM object, id unset.
convert_agent_data(raw_data) ==
    [id |-> UnsetId,
     road_state |-> raw_data.road_state,
     user_id |-> raw_data.agent_data.user_id,
     x |-> raw_data.agent_data.accelerometer.x,
     y |-> raw_data.agent_data.accelerometer.y,
     z |-> raw_data.agent_data.accelerometer.z,
     latitude |-> raw_data.agent_data.gps.latitude,
     longitude |-> raw_data.agent_data.gps.longitude,
     timestamp |-> raw_data.agent_data.timestamp.t]

Fields == {"road_state", "user_id", "x", "y", "z", "latitude", "longitude",
           "timestamp"}

\* ---------------------------------------------------------------- state
VARIABLES
    rows,           \* the table: id -> row (a record with its id)
    nextId,         \* the SERIAL sequence behind the autoincrement id
    everAssigned,   \* history: every id a committed row ever had
    everDeleted,    \* history: every id whose row a delete removed
    subKeys,        \* keys of the subscriptions dict, in insertion order
    subscriptions,  \* the subscriptions dict: user id -> set of handles
    wsState,        \* per handle: "new", "open", "closing", "closed", "failed"
    wsUser,         \* per handle: the user id of its /ws/{user_id} path
    call,           \* the create/update request in flight
    source          \* the agent's FileDatasource object and its three files

storeVars == <<rows, nextId, everAssigned, everDeleted, subKeys,
               subscriptions, wsState, wsUser, call>>
vars == <<storeVars, source>>

dbVars == <<rows, nextId, everAssigned, everDeleted>>
wsVars == <<subKeys, subscriptions, wsState, wsUser>>

\* ------------------------------------------------------- request record
\* The create/update request in flight.  pc: "idle" (none yet), "sending"
\* (suspended in the send_json await of line 130), "done" (returned),
\* "failed" (an exception left the route), "rejected" (body validation
\* refused the request before the route body ran).  attempts, delivered,
\* failedSend and joined are history: the sends the request tried, the
\* pushes that reached a handle, the handles whose send raised, and the
\* handles that connected while the request was suspended.
NewCall(op, id, data) ==
    [pc |-> "idle", op |-> op, id |-> id, data |-> data,
     payload |-> [kind |-> "list", items |-> <<>>],
     committed |-> FALSE, error |-> "none", ret |-> None, status |-> "none",
     dictUsed |-> 0, keyIdx |-> 0,
     it |-> [used |-> 0, seen |-> {}, orig |-> {}],
     cur |-> 0, attempts |-> 0, delivered |-> <<>>, failedSend |-> {},
     joined |-> {}]

NoIter == [used |-> 0, seen |-> {}, orig |-> {}]

\* An exception leaves the route: the request ends with a server error.
Fail(c, e) ==
    [c EXCEPT !.pc = "failed", !.error = e, !.status = "InternalServerError",
              !.cur = 0, !.keyIdx = 0, !.it = NoIter]

\* FastAPI validates a route's return value against its response_model:
\* None passes only where the model is declared Union[..., None].
ResponseStatus(allowsNone, ret) ==
    IF ret = None /\ ~allowsNone THEN "ResponseValidationError" ELSE "ok"

\* The fan-out loop is over: the route returns.  create returns nothing and
\* declares no response_model; update returns the updated row.
Return(c, ret, allowsNone) ==
    [c EXCEPT !.pc = "done", !.ret = ret,
              !.status = ResponseStatus(allowsNone, ret),
              !.cur = 0, !.keyIdx = 0, !.it = NoIter]

\* ------------------------------------------------------------- fan-out
\* json.dumps(data): the data handed to it is a list of ORM objects (create)
\* or one ORM object (update).  The default encoder serialises an empty
\* list and raises TypeError on any ORM object.  A JSON array text is
\* modelled by the sequence of the objects it holds: "[]" is <<>>.
JsonSerializable(payload) == payload.kind = "list" /\ payload.items = <<>>
JsonDumps(payload) == <<>>

\* One `await websocket.send_json(json.dumps(data))`: the argument is
\* evaluated first, then the send is tried; a send on a connection that is
\* gone raises, a send on an open one delivers and suspends the route.
SendStep(c, h) ==
    LET c1 == [c EXCEPT !.attempts = @ + 1]
    IN  IF ~JsonSerializable(c.payload) THEN Fail(c1, "TypeError")
        ELSE IF wsState[h] # "open"
             THEN Fail([c1 EXCEPT !.failedSend = @ \cup {h}], "SendError")
             ELSE [c1 EXCEPT !.pc = "sending", !.cur = h,
                     !.delivered = Append(@, [to |-> h,
                                              text |-> JsonDumps(c.payload)])]

Min(S) == CHOOSE x \in S : \A y \in S : x <= y
Max(S) == CHOOSE x \in S : \A y \in S : x >= y

\* The next key, from position i of the dict iterator, whose set has a
\* member: a key with an empty set makes send_data_to_subscribers return at
\* once, without any await.
FirstNonEmpty(i) ==
    LET S == {j \in i..Len(subKeys) : subscriptions[subKeys[j]] # {}}
    IN  IF S = {} THEN 0 ELSE Min(S)

\* How the route ends when the loop over the registry is exhausted.
Finish(c) ==
    IF c.op = "create" THEN Return(c, None, TRUE)
    ELSE Return(c, Some(c.payload.items[1]), FALSE)

\* `for ... in subscriptions` continued at key position i, up to the next
\* await: a new set iterator on the key's set, and its first element.  The
\* iteration order of a set of connection objects is not fixed.
NextKey(c, i) ==
    LET j == FirstNonEmpty(i)
    IN  IF j = 0 THEN {Finish(c)}
        ELSE LET s == subscriptions[subKeys[j]]
             IN  {SendStep([c EXCEPT !.keyIdx = j,
                                    !.it = [used |-> Cardinality(s),
                                            seen |-> {h}, orig |-> s]], h)
                  : h \in s}

\* Lines 162-163 / 213-214 from their start: the dict iterator is created.
Publish(c) == NextKey([c EXCEPT !.dictUsed = Len(subKeys)], 1)

\* Variant: the fan-out runs whether or not the commit returned.
PublishRegardless(c, ok) == Publish([c EXCEPT !.committed = ok])

\* The route after its commit: the fan-out runs only when the commit
\* returned; a commit that raises ends the route.
CommitThenPublish(c, ok) ==
    IF ok THEN Publish([c EXCEPT !.committed = TRUE])
    ELSE {Fail(c, "PersistenceFailure")}

\* The send await returns: next() of the set iterator, then (at the end of
\* the set) next() of the dict iterator.  Both iterators first compare the
\* container's size with the size at their creation and raise RuntimeError
\* when it changed.  With the size restored by a remove and an add, an
\* element added meanwhile may or may not be visited.
ResumeOutcomes(c) ==
    LET s    == subscriptions[subKeys[c.keyIdx]]
        rest == s \ c.it.seen
    IN  IF Cardinality(s) # c.it.used THEN {Fail(c, "RuntimeError")}
        ELSE {SendStep([c EXCEPT !.it.seen = @ \cup {h}], h) : h \in rest}
             \cup
             (IF rest \cap c.it.orig # {} THEN {}
              ELSE IF Len(subKeys) # c.dictUsed
                   THEN {Fail(c, "RuntimeError")}
                   ELSE NextKey(c, c.keyIdx + 1))

\* ---------------------------------------------------------------- store
Ids == 1..MaxId

\* Variant: ids taken as the table's highest id plus one, not from the
\* sequence.
AssignIdsFromMax(n) ==
    [i \in 1..n |-> (IF DOMAIN rows = {} THEN 0 ELSE Max(DOMAIN rows)) + i]

\* The ids the sequence hands to n inserted rows, in insertion order.
AssignIds(n) == [i \in 1..n |-> nextId + i - 1]

\* session.query(...).get(id): the row, or None.
Get(id) == IF id \in DOMAIN rows THEN Some(rows[id]) ELSE None

\* session.query(...).all(): every row, in storage (id) order.
RECURSIVE AllFrom(_)
AllFrom(i) ==
    IF i > MaxId THEN <<>>
    ELSE (IF i \in DOMAIN rows THEN <<rows[i]>> ELSE <<>>) \o AllFrom(i + 1)
All == AllFrom(1)

\* Variant: each object is committed on its own and only the first commit
\* goes through.
InsertedPartial(converted, ids) ==
    IF Len(ids) = 0 THEN rows
    ELSE [k \in DOMAIN rows \cup {ids[1]} |->
            IF k = ids[1] THEN [converted[1] EXCEPT !.id = k] ELSE rows[k]]

\* The table after the n converted objects were inserted with the ids.
Inserted(converted, ids) ==
    [k \in DOMAIN rows \cup {ids[i] : i \in 1..Len(ids)} |->
        IF \E i \in 1..Len(ids) : ids[i] = k
        THEN LET i == CHOOSE i \in 1..Len(ids) : ids[i] = k
             IN  [converted[i] EXCEPT !.id = k]
        ELSE rows[k]]

\* The DB driver renders a one-element tuple parameter as the parenthesised
\* scalar `(v)`: the column receives the element.
Adapt(param) == param[1]

\* Variant: the timestamp assignment is missing.
AssignEntryPartial(entry, conv) ==
    [f \in DOMAIN entry |->
        IF f \in Fields \ {"timestamp"} THEN <<conv[f]>>
        ELSE IF f = "timestamp" THEN <<entry[f]>> ELSE entry[f]]

\* Lines 202-209: every assignment ends in a comma, so each attribute of
\* the entry is set to a one-element tuple of the converted value.
AssignEntry(entry, conv) ==
    [f \in DOMAIN entry |-> IF f \in Fields THEN <<conv[f]>> ELSE entry[f]]

\* The UPDATE that the commit of line 211 flushes for the dirty entry.
Flushed(entry) ==
    [f \in DOMAIN entry |-> IF f \in Fields THEN Adapt(entry[f]) ELSE entry[f]]

\* --------------------------------------------------------------- routes
NoCallInFlight == call.pc # "sending"

\* POST /processed_agent_data/ up to its first suspension.  An empty batch
\* leaves the session without work, so its commit has nothing to fail on.
\* A commit that fails rolls the inserts back; sequence values it may have
\* consumed are seen by nobody and are not modelled.
create_processed_agent_data(data) ==
    /\ NoCallInFlight
    /\ LET c0 == NewCall("create", 0, data)
       IN  IF ~ValidBody(data)
           THEN /\ call' = [c0 EXCEPT !.pc = "rejected",
                                      !.status = "ValidationError"]
                /\ UNCHANGED dbVars
           ELSE /\ nextId + Len(data) - 1 <= MaxId
                /\ \E ok \in (IF data = <<>> THEN {TRUE} ELSE BOOLEAN) :
                     LET converted == [i \in 1..Len(data) |->
                                          convert_agent_data(data[i])]
                         ids == AssignIds(Len(data))
                         persisted == [i \in 1..Len(data) |->
                                          [converted[i] EXCEPT !.id = ids[i]]]
                         c1 == [c0 EXCEPT !.payload.items =
                                   IF ok THEN persisted ELSE converted]
                     IN  /\ IF ok
                            THEN /\ rows' = Inserted(converted, ids)
                                 /\ nextId' = nextId + Len(data)
                                 /\ everAssigned' = everAssigned \cup
                                        {ids[i] : i \in 1..Len(ids)}
                            ELSE /\ rows' = rows
                                 /\ nextId' = nextId
                                 /\ everAssigned' = everAssigned
                         /\ everDeleted' = everDeleted
                         /\ call' \in CommitThenPublish(c1, ok)
    /\ UNCHANGED <<wsVars, source>>

\* PUT /processed_agent_data/{id} up to its first suspension.
update_processed_agent_data(id, data) ==
    /\ NoCallInFlight
    /\ LET c0 == NewCall("update", id, <<data>>)
       IN  IF ~ValidItem(data)
           THEN /\ call' = [c0 EXCEPT !.pc = "rejected",
                                      !.status = "ValidationError"]
                /\ rows' = rows
           ELSE IF Get(id) = None
           THEN /\ call' = Return(c0, None, FALSE)
                /\ rows' = rows
           ELSE \E ok \in BOOLEAN :
                  LET entry == AssignEntry(rows[id], convert_agent_data(data))
                      row == Flushed(entry)
                      c1 == [c0 EXCEPT !.payload =
                                [kind |-> "object", items |-> <<row>>]]
                  IN  /\ rows' = IF ok THEN [rows EXCEPT ![id] = row] ELSE rows
                      /\ call' \in CommitThenPublish(c1, ok)
    /\ UNCHANGED <<nextId, everAssigned, everDeleted, wsVars, source>>

\* The send await of line 130 returns and the route runs to its next
\* suspension, its return or its exception.
Resume ==
    /\ call.pc = "sending"
    /\ call' \in ResumeOutcomes(call)
    /\ UNCHANGED <<dbVars, wsVars, source>>

\* GET /processed_agent_data/{id}: reads the row and answers; the route
\* changes no state, so it is the function of the store it computes.
read_processed_agent_data(id) ==
    [ret |-> Get(id), status |-> ResponseStatus(TRUE, Get(id))]

\* GET /processed_agent_data/: likewise a pure read.
list_processed_agent_data == [ret |-> All, status |-> "ok"]

\* The answer of DELETE /processed_agent_data/{id} in the current state,
\* when its commit succeeds: the entry read before the delete, or None.
delete_response(id) ==
    [ret |-> Get(id), status |-> ResponseStatus(FALSE, Get(id))]

\* Variant: the statement's filter matches every id up to the given one.
DeletedThrough(id) == [k \in {j \in DOMAIN rows : j > id} |-> rows[k]]

\* The table after the DELETE statement of line 230 for the id.
Deleted(id) == [k \in DOMAIN rows \ {id} |-> rows[k]]

\* DELETE /processed_agent_data/{id}
delete_processed_agent_data(id) ==
    /\ IF Get(id) = None
       THEN UNCHANGED <<rows, everDeleted>>
       ELSE \E ok \in BOOLEAN :
              IF ok
              THEN /\ rows' = Deleted(id)
                   /\ everDeleted' = everDeleted \cup {id}
              ELSE UNCHANGED <<rows, everDeleted>>
    /\ UNCHANGED <<nextId, everAssigned, wsVars, call, source>>

\* ------------------------------------------------------------ websockets
\* Variant: a handle that connects is sent the last publish it missed.
JoinedWithReplay(c, h) ==
    IF c.pc = "sending" THEN [c EXCEPT !.joined = @ \cup {h}]
    ELSE IF c.pc = "done" /\ JsonSerializable(c.payload)
         THEN [c EXCEPT !.delivered =
                            Append(@, [to |-> h, text |-> JsonDumps(c.payload)])]
         ELSE c

\* What a new connection means to the request c in flight: nothing is sent
\* to the handle on connect; the request only notes the handles that
\* joined while it was suspended in a send.
Joined(c, h) ==
    IF c.pc = "sending" THEN [c EXCEPT !.joined = @ \cup {h}] ELSE c

\* /ws/{user_id}: accept, then register the handle under the path's user.
\* Connection objects are interchangeable: they are numbered in the order
\* in which they connect.
Connect(h, u) ==
    /\ wsState[h] = "new"
    /\ \A g \in Handles : g < h => wsState[g] # "new"
    /\ wsState' = [wsState EXCEPT ![h] = "open"]
    /\ wsUser' = [wsUser EXCEPT ![h] = u]
    /\ IF u \in DOMAIN subscriptions
       THEN /\ subscriptions' = [subscriptions EXCEPT ![u] = @ \cup {h}]
            /\ subKeys' = subKeys
       ELSE /\ subscriptions' = [k \in DOMAIN subscriptions \cup {u} |->
                                   IF k = u THEN {h} ELSE subscriptions[k]]
            /\ subKeys' = Append(subKeys, u)
    /\ call' = Joined(call, h)
    /\ UNCHANGED <<dbVars, source>>

\* The peer closes the channel: the connection is gone, the endpoint has
\* not run yet and the handle is still in the registry.
Close(h) ==
    /\ wsState[h] = "open"
    /\ wsState' = [wsState EXCEPT ![h] = "closing"]
    /\ UNCHANGED <<dbVars, subKeys, subscriptions, wsUser, call, source>>

\* set.remove of line 123: raises KeyError when the element is not in the
\* set.
Remove(s, h) ==
    IF h \in s THEN [set |-> s \ {h}, error |-> "none"]
    ELSE [set |-> s, error |-> "KeyError"]

\* receive_text raises WebSocketDisconnect in the endpoint: lines 122-123.
Disconnect(h) ==
    /\ wsState[h] = "closing"
    /\ wsState' = [wsState EXCEPT ![h] = "closed"]
    /\ subscriptions' = [subscriptions EXCEPT ![wsUser[h]] = Remove(@, h).set]
    /\ UNCHANGED <<dbVars, subKeys, wsUser, call, source>>

\* The peer sends a binary frame: receive_text (line 121) raises KeyError
\* on the message, which line 122 does not catch.  The endpoint ends
\* there, the server closes the channel, line 123 is not run.
ReceiveBinary(h) ==
    /\ wsState[h] = "open"
    /\ wsState' = [wsState EXCEPT ![h] = "failed"]
    /\ UNCHANGED <<dbVars, subKeys, subscriptions, wsUser, call, source>>

\* ------------------------------------------------------- FileDatasource
\* The three files in the order read() consumes them.
StreamNames == <<"accelerometer", "gps", "parking">>
Streams == {StreamNames[i] : i \in 1..3}

\* A file is its sequence of lines.  "header" is the column-name line,
\* "row" a line of numeric fields, "bad" a line with a field float() does
\* not parse.  A file is empty, or a header followed by data lines.
DataLines == UNION {[1..n -> {"row", "bad"}] : n \in 0..MaxRows}
Contents == {<<>>} \cup {<<"header">> \o r : r \in DataLines}

\* A file attribute of the object: None, or a file object that is open at
\* a line position or closed.  A closed file object is still truthy.
NoFile == [state |-> "none", pos |-> 0]
Opened == [state |-> "open", pos |-> 0]

NoResult == [kind |-> "none", error |-> "none",
             at |-> [s \in Streams |-> 0]]
Raised(e) == [kind |-> "error", error |-> e, at |-> [s \in Streams |-> 0]]

\* FileDatasource.__init__ over files with the given contents.
NewSource(data) ==
    [data |-> data, file |-> [s \in Streams |-> NoFile],
     pc |-> "idle", eof |-> "none", restarted |-> FALSE, result |-> NoResult]

\* Variant: the end of a file and a closed file are told alike.
ReadLineClosedAsEnd(f, lines) ==
    IF f.state = "none" THEN [kind |-> "raise", error |-> "TypeError"]
    ELSE IF f.state = "closed" \/ f.pos >= Len(lines)
         THEN [kind |-> "raise", error |-> "StopIteration"]
         ELSE [kind |-> "line", error |-> "none", line |-> lines[f.pos + 1]]

\* next() on a file object (directly, or through csv.reader): ValueError
\* on a closed file, StopIteration at the end, else the line at the cursor.
\* reader(None) raises TypeError.
ReadLine(f, lines) ==
    IF f.state = "none" THEN [kind |-> "raise", error |-> "TypeError"]
    ELSE IF f.state = "closed" THEN [kind |-> "raise", error |-> "ValueError"]
    ELSE IF f.pos >= Len(lines)
         THEN [kind |-> "raise", error |-> "StopIteration"]
         ELSE [kind |-> "line", error |-> "none", line |-> lines[f.pos + 1]]

\* map(float, columns): every field of the line parses.
Numeric(line) == line = "row"

\* Lines 55-57 from stream i on: next(file) skips one line of each file in
\* turn; on an empty file it raises StopIteration and the files after it
\* keep their header.
RECURSIVE SkipHeaders(_, _, _)
SkipHeaders(i, f, data) ==
    IF i > 3 THEN [file |-> f, error |-> "none"]
    ELSE LET s == StreamNames[i]
             r == ReadLine(f[s], data[s])
         IN  IF r.kind = "raise" THEN [file |-> f, error |-> r.error]
             ELSE SkipHeaders(i + 1, [f EXCEPT ![s].pos = @ + 1], data)

\* A restart that leaves the headers unread.
ReopenUnskipped(f, data) ==
    [file |-> [s \in Streams |-> Opened], error |-> "none"]

\* A restart that keeps the files that are open and not at their end.
ReopenExhausted(f, data) ==
    [file |-> [s \in Streams |->
                 IF f[s].state = "open" /\ f[s].pos < Len(data[s])
                 THEN f[s] ELSE [state |-> "open", pos |-> 1]],
     error |-> "none"]

\* startReading: lines 50-52 bind all three attributes f to newly opened
\* files, lines 55-57 skip their headers.
Reopen(f, data) == SkipHeaders(1, [s \in Streams |-> Opened], data)

\* Lines 27-36 from stream i on: one line of each file in turn, parsed as
\* floats.  `at` collects the line number each part of the sample is from,
\* `stream` names the file whose read raised.
RECURSIVE ReadRows(_, _, _, _)
ReadRows(i, f, data, at) ==
    IF i > 3 THEN [kind |-> "return", error |-> "none", file |-> f, at |-> at,
                   stream |-> "none"]
    ELSE LET s == StreamNames[i]
             r == ReadLine(f[s], data[s])
             f1 == [f EXCEPT ![s].pos = @ + 1]
         IN  IF r.kind = "raise"
             THEN [kind |-> "raise", error |-> r.error, file |-> f, at |-> at,
                   stream |-> s]
             ELSE IF ~Numeric(r.line)
             THEN [kind |-> "raise", error |-> "ValueError", file |-> f1,
                   at |-> at, stream |-> s]
             ELSE ReadRows(i + 1, f1, data, [at EXCEPT ![s] = f1[s].pos])

\* The try block of read(), lines 23-44: the check of line 23 looks at the
\* accelerometer and gps attributes only.
TryRead(src) ==
    IF src.file["accelerometer"].state = "none"
       \/ src.file["gps"].state = "none"
    THEN [kind |-> "raise", error |-> "ValueError", file |-> src.file,
          at |-> NoResult.at, stream |-> "none"]
    ELSE ReadRows(1, src.file, src.data, NoResult.at)

\* Variant: the loop recovers from a parse error as well.
CaughtAny(e) == e \in {"StopIteration", "ValueError"}

\* Line 45: the exceptions the loop of read() recovers from.
Caught(e) == e = "StopIteration"

\* startReading()
startReading ==
    /\ source.pc = "idle"
    /\ LET o == Reopen(source.file, source.data)
       IN  source' = [source EXCEPT
                        !.file = o.file,
                        !.result = IF o.error = "none" THEN NoResult
                                   ELSE Raised(o.error)]
    /\ UNCHANGED storeVars

\* stopReading(): closes every file object there is; the attributes keep
\* the closed objects.
stopReading ==
    /\ source.pc = "idle"
    /\ source' = [source EXCEPT
                    !.file = [s \in Streams |->
                                IF source.file[s].state = "open"
                                THEN [source.file[s] EXCEPT !.state = "closed"]
                                ELSE source.file[s]],
                    !.result = NoResult]
    /\ UNCHANGED storeVars

\* A call of read() enters its loop.
ReadCall ==
    /\ source.pc = "idle"
    /\ source' = [source EXCEPT !.pc = "reading", !.eof = "none",
                                !.restarted = FALSE, !.result = NoResult]
    /\ UNCHANGED storeVars

\* The try block of one pass of the `while True` of read(): it returns the
\* sample, or lets the exception leave read(), or enters the handler of
\* line 45 with the files as far as they were consumed.
ReadPass ==
    /\ source.pc = "reading"
    /\ LET o == TryRead(source)
       IN  IF o.kind = "return"
           THEN source' = [source EXCEPT
                             !.pc = "idle", !.file = o.file,
                             !.result = [kind |-> "sample", error |-> "none",
                                         at |-> o.at]]
           ELSE IF Caught(o.error)
           THEN source' = [source EXCEPT !.pc = "caught", !.file = o.file,
                                         !.eof = o.stream]
           ELSE source' = [source EXCEPT !.pc = "idle", !.file = o.file,
                                         !.result = Raised(o.error)]
    /\ UNCHANGED storeVars

\* The handler, line 46: startReading(), then the loop goes round.  An
\* exception raised by startReading inside the handler leaves read().
ReadRestart ==
    /\ source.pc = "caught"
    /\ LET r == Reopen(source.file, source.data)
       IN  IF r.error = "none"
           THEN source' = [source EXCEPT !.pc = "reading", !.file = r.file,
                                         !.restarted = TRUE]
           ELSE source' = [source EXCEPT !.pc = "idle", !.file = r.file,
                                         !.result = Raised(r.error)]
    /\ UNCHANGED storeVars

\* ---------------------------------------------------------- specification
Init ==
    /\ rows = <<>>
    /\ nextId = 1
    /\ everAssigned = {}
    /\ everDeleted = {}
    /\ subKeys = <<>>
    /\ subscriptions = <<>>
    /\ wsState = [h \in Handles |-> "new"]
    /\ wsUser = [h \in Handles |-> 0]
    /\ call = [pc |-> "idle", op |-> "none", id |-> 0, data |-> <<>>,
               payload |-> [kind |-> "list", items |-> <<>>],
               committed |-> FALSE, error |-> "none", ret |-> None,
               status |-> "none", dictUsed |-> 0, keyIdx |-> 0, it |-> NoIter,
               cur |-> 0, attempts |-> 0, delivered |-> <<>>,
               failedSend |-> {}, joined |-> {}]
    /\ source = NewSource([s \in Streams |-> <<>>])

Next ==
    \/ \E data \in Batches : create_processed_agent_data(data)
    \/ \E id \in Ids, data \in Items : update_processed_agent_data(id, data)
    \/ Resume
    \/ \E id \in Ids : delete_processed_agent_data(id)
    \/ \E h \in Handles, u \in Users : Connect(h, u)
    \/ \E h \in Handles : Close(h)
    \/ \E h \in Handles : Disconnect(h)

Spec == Init /\ [][Next]_vars

\* The store with peers that also send binary frames.
WsNext ==
    \/ Next
    \/ \E h \in Handles : ReceiveBinary(h)

WsSpec == Init /\ [][WsNext]_vars

\* The agent alone, over every choice of the three files' contents.  The
\* loop of read() is sequential code that keeps running: its steps are
\* weakly fair.
SourceInit ==
    /\ rows = <<>>
    /\ nextId = 1
    /\ everAssigned = {}
    /\ everDeleted = {}
    /\ subKeys = <<>>
    /\ subscriptions = <<>>
    /\ wsState = [h \in Handles |-> "new"]
    /\ wsUser = [h \in Handles |-> 0]
    /\ call = NewCall("none", 0, <<>>)
    /\ \E data \in [Streams -> Contents] : source = NewSource(data)

SourceNext ==
    \/ startReading
    \/ stopReading
    \/ ReadCall
    \/ ReadPass
    \/ ReadRestart

SourceSpec ==
    SourceInit /\ [][SourceNext]_vars
    /\ WF_vars(ReadPass) /\ WF_vars(ReadRestart)

\* ================================================================ claims
\* A step that starts a request of the given kind (and runs it to its first
\* suspension, return or exception).
Starts(op) == call.pc # "sending" /\ call' # call /\ call'.op = op

\* The handles a request has pushed to, and how often.
Pushes(c, h) == Cardinality({k \in 1..Len(c.delivered) : c.delivered[k].to = h})

\* The user ids of the records of the request's batch.
BatchUsers(c) == {c.data[i].agent_data.user_id : i \in 1..Len(c.data)}

Registered(h) == \E u \in DOMAIN subscriptions : h \in subscriptions[u]

\* The persisted row `row` carries the field values of the submitted item.
SameFields(row, item) ==
    /\ row.road_state = item.road_state
    /\ row.user_id = item.agent_data.user_id
    /\ row.x = item.agent_data.accelerometer.x
    /\ row.y = item.agent_data.accelerometer.y
    /\ row.z = item.agent_data.accelerometer.z
    /\ row.latitude = item.agent_data.gps.latitude
    /\ row.longitude = item.agent_data.gps.longitude
    /\ row.timestamp = item.agent_data.timestamp.t

\* C1: every push of a create call goes to a handle registered under the
\* user id of some record of the batch; a handle under a user id that no
\* record of the batch has receives nothing.
C1_OnlyOwnersReceive ==
    call.op = "create" =>
        \A k \in 1..Len(call.delivered) :
            wsUser[call.delivered[k].to] \in BatchUsers(call)

\* C2: a send that raises does not make the create call fail, and when the
\* call has returned every other registered live handle has its push.
C2_DeliveryFailureIsolated ==
    (call.op = "create" /\ call.failedSend # {}) =>
        /\ call.pc # "failed"
        /\ call.pc = "done" =>
             \A h \in Handles :
                (Registered(h) /\ wsState[h] = "open" /\ h \notin call.joined)
                    => Pushes(call, h) >= 1

\* C3: whatever connects or disconnects while a publish is suspended, the
\* publish does not crash (no RuntimeError from a container that changed
\* size under its iterator), and a push is never made to a handle that is
\* no longer in the registry.
C3_PublishToleratesRegistryChange ==
    [][/\ call'.error # "RuntimeError"
       /\ (Len(call'.delivered) > 0 /\ call'.delivered # call.delivered) =>
             Registered(call'.delivered[Len(call'.delivered)].to)]_vars

\* C4: a request that has tried a send has committed before, and the rows
\* it pushes have been inserted; a request whose commit failed tries none.
C4_FanoutAfterCommit ==
    /\ call.attempts > 0 =>
          /\ call.committed
          /\ \A i \in 1..Len(call.payload.items) :
                call.payload.items[i].id \in everAssigned
    /\ call.error = "PersistenceFailure" =>
          call.attempts = 0 /\ call.delivered = <<>>

C4_Witness ==
    /\ call.op = "create" /\ call.committed /\ call.attempts > 0
    /\ call.payload.items # <<>>

\* C5: when a create call that committed a batch of one record for user U
\* ends, every live handle registered under U since before the call has
\* exactly one push of that call, and the push carries the persisted record
\* with its assigned id.
C5_ExactlyOnePush ==
    [][(call'.op = "create" /\ call'.committed /\ Len(call'.data) = 1
        /\ call' # call /\ call'.pc \in {"done", "failed"}) =>
          \A h \in Handles :
             (/\ wsState[h] = "open" /\ h \notin call'.joined
              /\ wsUser[h] = call'.data[1].agent_data.user_id
              /\ Registered(h))
             => /\ Pushes(call', h) = 1
                /\ \E k \in 1..Len(call'.delivered) :
                      /\ call'.delivered[k].to = h
                      /\ Len(call'.delivered[k].text) = 1
                      /\ call'.delivered[k].text[1].id \in everAssigned'
                      /\ SameFields(call'.delivered[k].text[1],
                                    call'.data[1])]_vars

\* C6: a create step either leaves the table as it was (always so when an
\* item fails validation or the commit fails) or adds one row per item of
\* the batch, all of them.
C6_CreateAtomic ==
    [][Starts("create") =>
         /\ \/ rows' = rows
            \/ /\ call'.committed
               /\ \A id \in DOMAIN rows :
                     id \in DOMAIN rows' /\ rows'[id] = rows[id]
               /\ Cardinality(DOMAIN rows' \ DOMAIN rows) = Len(call'.data)
         /\ (\E i \in 1..Len(call'.data) : ~call'.data[i].agent_data.timestamp.iso)
               => rows' = rows
         /\ call'.error = "PersistenceFailure" => rows' = rows]_vars

C6_Witness ==
    /\ call.op = "create" /\ call.pc = "rejected" /\ Len(call.data) = 2
    /\ \E i \in 1..2 : call.data[i].agent_data.timestamp.iso

\* C7: a create with an empty batch adds no row, pushes to nobody and
\* raises nothing.
C7_EmptyBatchNoOp ==
    [][(call'.op = "create" /\ call'.data = <<>>) =>
         /\ Starts("create") => rows' = rows
         /\ call'.delivered = <<>>
         /\ call'.error = "none"]_vars

\* C8: a create that commits batch B leaves every old row as it was and
\* adds exactly one row per item of B with the item's field values; the new
\* ids are distinct and were never assigned before, deleted rows included;
\* the list route then returns exactly these rows.
C8_CreateThenList ==
    [][(Starts("create") /\ call'.committed) =>
         LET B == call'.data
             new == DOMAIN rows' \ DOMAIN rows
             listed == list_processed_agent_data'.ret
         IN  /\ \A id \in DOMAIN rows :
                   id \in DOMAIN rows' /\ rows'[id] = rows[id]
             /\ new \cap everAssigned = {}
             /\ \E f \in [1..Len(B) -> new] :
                   /\ \A i, j \in 1..Len(B) : f[i] = f[j] => i = j
                   /\ \A id \in new : \E i \in 1..Len(B) : f[i] = id
                   /\ \A i \in 1..Len(B) :
                         rows'[f[i]].id = f[i] /\ SameFields(rows'[f[i]], B[i])
             /\ Len(listed) = Cardinality(DOMAIN rows')
             /\ {listed[k] : k \in 1..Len(listed)}
                   = {rows'[id] : id \in DOMAIN rows'}]_vars

C8_Witness ==
    /\ call.op = "create" /\ call.committed /\ Len(call.data) >= 1
    /\ everDeleted # {}
    /\ \A d \in everDeleted : call.payload.items[1].id > d
    /\ call.payload.items[1].id \in DOMAIN rows

\* C9: for an id whose row a delete removed, the read route answers
\* not-found and the delete route answers not-found without raising.
C9_DeletedIsNotFound ==
    \A id \in everDeleted :
        /\ read_processed_agent_data(id).ret = None
        /\ read_processed_agent_data(id).status = "ok"
        /\ delete_response(id).ret = None
        /\ delete_response(id).status = "ok"

\* C10: an update of an existing id with record R that commits leaves under
\* that id a row with R's field values and the same id, as the read route
\* returns it, and changes no other row.
C10_UpdateThenGet ==
    [][(Starts("update") /\ call'.committed) =>
         \A id \in Ids : id = call'.id =>
            LET got == read_processed_agent_data(id)'.ret
            IN  /\ got # None
                /\ got[1].id = id
                /\ SameFields(got[1], call'.data[1])
                /\ DOMAIN rows' = DOMAIN rows
                /\ \A k \in DOMAIN rows : k # id => rows'[k] = rows[k]]_vars

C10_Witness ==
    /\ call.op = "update" /\ call.committed
    /\ call.id \in DOMAIN rows
    /\ SameFields(rows[call.id], call.data[1])
    /\ \E k \in DOMAIN rows :
          k # call.id /\ rows[k].user_id # rows[call.id].user_id

\* ------------------------------------------------------ claims, C11 .. C20
\* Every line of every file is as the format says: a header, then rows of
\* numeric fields.
WellFormed ==
    \A s \in Streams :
        /\ Len(source.data[s]) >= 1
        /\ \A i \in 2..Len(source.data[s]) : source.data[s][i] = "row"

IsOpen == \A s \in Streams : source.file[s].state = "open"

\* C11: over three opened streams of well-formed lines, every call of
\* read() terminates and returns a sample.
C11_ReadReturns ==
    (source.pc = "reading" /\ WellFormed /\ IsOpen)
        ~> (source.pc = "idle" /\ source.result.kind = "sample")

HasHeaders == \A s \in Streams : Len(source.data[s]) >= 1

\* C12 as stated: when read() finds a stream exhausted, only that stream
\* is reopened; the cursors of the other two are left where they were.
C12_OthersNotRewound ==
    [][source.pc = "caught" =>
         \A s \in Streams \ {source.eof} :
             source'.file[s] = source.file[s]]_vars

\* C12: when read() finds a stream exhausted, all three files are opened
\* anew with their header skipped, whatever their cursors were, and the
\* read is retried.
C12_RestartReopensAll ==
    [][source.pc = "caught" /\ HasHeaders =>
         /\ source'.pc = "reading"
         /\ \A s \in Streams :
                source'.file[s] = [state |-> "open", pos |-> 1]]_vars

C12_Witness ==
    /\ source.pc = "reading"
    /\ source.restarted
    /\ \E s \in Streams : Len(source.data[s]) > Len(source.data[source.eof])


\* The line at the cursor of stream s.
LineAt(s) ==
    IF source.file[s].state = "open" /\ source.file[s].pos < Len(source.data[s])
    THEN source.data[s][source.file[s].pos + 1] ELSE "none"

\* The pass about to run reads a malformed line from stream i, after one
\* numeric line from each stream before it.
MalformedNext(i) ==
    /\ source.pc = "reading"
    /\ IsOpen
    /\ LineAt(StreamNames[i]) = "bad"
    /\ \A j \in 1..(i - 1) : LineAt(StreamNames[j]) = "row"

\* C17: a malformed field in any of the three streams makes read() raise
\* the parse error to its caller: no sample is returned, no stream is
\* reopened, and no line beyond the malformed one is consumed.
C17_MalformedRaises ==
    [][\A i \in 1..3 :
          MalformedNext(i) =>
             /\ source'.pc = "idle"
             /\ source'.result = Raised("ValueError")
             /\ source'.restarted = source.restarted
             /\ \A j \in 1..3 :
                   source'.file[StreamNames[j]] =
                       [state |-> "open",
                        pos |-> source.file[StreamNames[j]].pos
                                  + (IF j <= i THEN 1 ELSE 0)]]_vars

C17_Witness ==
    /\ source.pc = "idle"
    /\ source.result = Raised("ValueError")
    /\ IsOpen
    /\ \E s \in Streams :
          /\ source.file[s].pos >= 2
          /\ source.data[s][source.file[s].pos] = "bad"

\* C18: with well-formed lines, a sample that read() returns is built from
\* the same line number of the three files, and the three cursors stand
\* after that line: they have consumed the same number of data rows.
C18_SameIndex ==
    (WellFormed /\ source.result.kind = "sample") =>
        \A s, t \in Streams :
            /\ source.result.at[s] = source.result.at[t]
            /\ source.file[s].pos = source.result.at[s]
            /\ source.file[s].pos >= 2

C18_Witness ==
    /\ WellFormed
    /\ source.result.kind = "sample"
    /\ source.restarted
    /\ \E s, t \in Streams : Len(source.data[s]) # Len(source.data[t])

\* C19: read() on a source whose files are not open (never opened, or
\* closed by stopReading) raises to its caller; it returns no sample and
\* opens no file.
C19_ReadUnopenedRaises ==
    [][(source.pc = "reading"
        /\ \A s \in Streams : source.file[s].state # "open") =>
          /\ source'.pc = "idle"
          /\ source'.result = Raised("ValueError")
          /\ source'.file = source.file]_vars

C19_Witness ==
    /\ source.pc = "idle"
    /\ source.result = Raised("ValueError")
    /\ \A s \in Streams : source.file[s] = [state |-> "closed", pos |-> 1]

\* C13: every close of a handle's channel is followed by the handle's
\* removal: once the endpoint serving a handle has ended, the handle is
\* registered under no user id.
C13_ClosedIsRemoved ==
    \A h \in Handles : wsState[h] \in {"closed", "failed"} => ~Registered(h)

C15_NoLatePush ==
    [][(call.op = "create" /\ call.pc = "done") =>
         \/ call' = call
         \/ /\ Starts("create") \/ Starts("update")
            /\ \A k \in 1..Len(call'.delivered) :
                  /\ call'.delivered[k].text = JsonDumps(call'.payload)
                  /\ Registered(call'.delivered[k].to)
            /\ call'.op = "create" =>
                  \A i \in 1..Len(call'.payload.items) :
                      call'.payload.items[i].id \notin everAssigned]_vars

C15_Witness ==
    /\ call.op = "create" /\ call.pc = "done" /\ call.committed
    /\ \E h \in Handles :
          /\ Registered(h) /\ wsState[h] = "open"
          /\ h \notin call.joined
          /\ Pushes(call, h) = 0

\* C16: a delete that removes a row removes exactly the row of its id,
\* leaves every other row as it was, and responds with the row as it was
\* just before the deletion.
C16_DeleteExactlyOne ==
    [][\A id \in DOMAIN rows :
          id \notin DOMAIN rows' =>
             /\ DOMAIN rows' = DOMAIN rows \ {id}
             /\ \A k \in DOMAIN rows' : rows'[k] = rows[k]
             /\ delete_response(id) = [ret |-> Some(rows[id]),
                                       status |-> "ok"]]_vars

C16_Witness ==
    /\ everDeleted # {}
    /\ rows # <<>>
    /\ \E id \in everDeleted : \E k \in DOMAIN rows : k > id

\* C20: an update of an id that has no row responds with the not-found
\* value without an error, changes no row and tries no send; a step that
\* deletes a row changes nothing of any request's pushes.
C20_MissingUpdateAndDeleteSilent ==
    [][/\ (Starts("update") /\ call'.pc = "done" /\ Get(call'.id) = None) =>
             /\ rows' = rows
             /\ call'.attempts = 0 /\ call'.delivered = <<>>
             /\ call'.ret = None
             /\ call'.status = "ok"
       /\ (\E id \in DOMAIN rows : id \notin DOMAIN rows') => call' = call]_vars

====
